---- MODULE Spec2Model ----
(***************************************************************************)
(* Groomer directory and review ledger of the grooming service.            *)
(*                                                                         *)
(* The committed store (tables groomers and reviews) is shared by the      *)
(* request handlers.  Every request runs in its own SQLAlchemy session     *)
(* (session_scope), step by step at the granularity of its SQL statements: *)
(* a SELECT reads the rows committed at that moment plus the session's own *)
(* flushed rows, a flushed INSERT/DELETE stays private until a COMMIT, and *)
(* the ORM writes back only the attributes of an object that differ from   *)
(* the values it loaded.  The engine sets no isolation level and takes no  *)
(* row lock on read (database.py 95-109, 121).                             *)
(*                                                                         *)
(* Ratings are kept in hundredths: 4.33 is 433.                            *)
(***************************************************************************)
EXTENDS Integers, Sequences, FiniteSets, TLC

\* ---------------------------------------------------------------- bounds

MaxGroomers == 2        \* groomer rows the store may hold
MaxReviews  == 3        \* review ids ever handed out
MaxRequests == 4        \* requests started in one sequential run
MaxOverlap  == 3        \* requests started in one run of overlapping requests
MaxLedger   == 5        \* review ids handed out in one run of review requests

\* Two workers serve the requests.
Procs      == {1, 2}
GroomerIds == 1..MaxGroomers
ReviewIds  == 1..MaxReviews

\* Ratings the modelled callers submit (schemas/review.py allows 1..5).
ReviewRatings == {4, 5}

\* ------------------------------------------------------------ the tables

ProfileFields == {"first_name", "last_name", "location", "specialization"}

\* Groomer(**groomer_in.model_dump()) with the column defaults.
Groomer(fields) ==
    [first_name           |-> fields["first_name"],
     last_name            |-> fields["last_name"],
     location             |-> fields["location"],
     specialization       |-> fields["specialization"],
     status               |-> "active",
     rating               |-> 0,
     review_count         |-> 0,
     complaint_count      |-> 0,
     total_bookings_count |-> 0]

\* A review row that references the first groomer, whoever it was written for.
Review_first_groomer(groomer_id, rating, created_at) ==
    [groomer_id |-> 1, rating |-> rating, created_at |-> created_at]

\* Review(groomer_id=groomer_id, **review_in.model_dump()); created_at is the
\* column default, datetime.now(UTC) at the INSERT.
Review(groomer_id, rating, created_at) ==
    [groomer_id |-> groomer_id, rating |-> rating, created_at |-> created_at]

\* The clock reading at the n-th INSERT of a review: the first two fall in the
\* same instant, later ones each in a later one.
ClockAt(n) == IF n <= 2 THEN 1 ELSE n

\* Text is a sequence of characters.  The one profile the modelled callers
\* create groomers with.
CreateInput ==
    [first_name |-> <<"A", "n">>, last_name |-> <<"L", "e">>,
     location |-> <<"O", "s">>, specialization |-> <<"D", "o">>]

\* The partial updates the modelled callers send (exclude_unset: only the
\* fields in the domain are present in the request).  <<>> is null, which the
\* schema allows for every field.
UpdateInputs ==
    { [f \in {"location"} |-> <<"R", "o">>],
      [f \in {"specialization"} |-> <<>>],
      [f \in {"location"} |-> <<>>],
      [f \in {} |-> <<>>] }

EmptyFields == [f \in {} |-> <<>>]

VARIABLES
    groomers,     \* committed table groomers: groomer_id -> row
    reviews,      \* committed table reviews: review_id -> row
    nextRid,      \* next fresh review id (uuid4)
    log_sender,   \* TRUE when the unified log sender is configured
    engine,       \* the SQL dialect of the DatabaseManager's engine
    req,          \* per worker: the request it serves
    pc,           \* per worker: the statement it is about to run
    sess,         \* per worker: its session (loaded object, flushed rows)
    result,       \* per worker: what the caller got
    committed,    \* per worker: what its request has committed so far
    nreq,         \* requests started
    pre           \* tables as they were when the last sequential request began

vars == <<groomers, reviews, nextRid, log_sender, engine, req, pc, sess, result,
          committed, nreq, pre>>

\* The committed tables as one value.
Db == [groomers |-> groomers, reviews |-> reviews]

\* ----------------------------------------------------------- the session

\* SessionLocal(): nothing loaded, nothing flushed.
\*   gobj  the groomer row as loaded (identity map), <<>> when none
\*   cur   the groomer object's attributes now
\*   ins   flushed, uncommitted INSERT of a review: <<[id, row]>>
\*   del   flushed, uncommitted DELETE of a review id (0: none)
\*   gid   the groomer the request works on
\*   rid   the review the request inserted (0: none)
\*   snap  delete_review's review_data, <<>> when none
NewSession ==
    [gobj |-> <<>>, cur |-> <<>>, ins |-> <<>>, del |-> 0, gid |-> 0,
     rid |-> 0, snap |-> <<>>]

NoResult == [outcome |-> "", telemetry |-> "", ret |-> <<>>]

NoRequest ==
    [op |-> "", gid |-> 0, rid |-> 0, rating |-> 0, fields |-> EmptyFields,
     min_rating |-> <<>>, skip |-> 0, limit |-> 0]

\* What a statement of worker p sees of table reviews: the committed rows,
\* minus its own flushed DELETE, plus its own flushed INSERT.
SessionReviews(p) ==
    LET kept == [r \in DOMAIN reviews \ {sess[p].del} |-> reviews[r]]
    IN  IF sess[p].ins = <<>> THEN kept
        ELSE (sess[p].ins[1].id :> sess[p].ins[1].row) @@ kept

\* The ORM's UPDATE of a loaded object: only the attributes whose value
\* differs from the loaded one are written to the row.
FlushGroomer(row, loaded, cur) ==
    [c \in DOMAIN row |-> IF cur[c] # loaded[c] THEN cur[c] ELSE row[c]]

\* What the COMMIT of worker p's pending review rows adds to its record.
PendingKinds(p) ==
    (IF sess[p].ins # <<>> THEN {"review_insert"} ELSE {})
    \cup (IF sess[p].del # 0 THEN {"review_delete"} ELSE {})

\* ------------------------------------------------------- pure operations

\* get_groomer without its status filter.
get_groomer_any_status(db, groomer_id) ==
    IF groomer_id \in DOMAIN db.groomers
    THEN <<db.groomers[groomer_id]>>
    ELSE <<>>

\* get_groomer with get_all_groomers' filter on the status.
get_groomer_active_only(db, groomer_id) ==
    IF groomer_id \in DOMAIN db.groomers
         /\ db.groomers[groomer_id].status = "active"
    THEN <<db.groomers[groomer_id]>>
    ELSE <<>>

\* crud.get_groomer: by id, excluding deleted ones.  <<>> is None.
get_groomer(db, groomer_id) ==
    IF groomer_id \in DOMAIN db.groomers
         /\ db.groomers[groomer_id].status # "deleted"
    THEN <<db.groomers[groomer_id]>>
    ELSE <<>>

\* soft_delete_groomer's lookup with get_groomer's filter on the status.
get_any_groomer_visible(db, groomer_id) ==
    IF groomer_id \in DOMAIN db.groomers
         /\ db.groomers[groomer_id].status # "deleted"
    THEN <<db.groomers[groomer_id]>>
    ELSE <<>>

\* soft_delete_groomer's own lookup: by id alone.
get_any_groomer(db, groomer_id) ==
    IF groomer_id \in DOMAIN db.groomers
    THEN <<db.groomers[groomer_id]>>
    ELSE <<>>

\* groomer.status = GroomerStatus.deleted
SoftDeleted_inactive(row) == [row EXCEPT !.status = "inactive"]

SoftDeleted_cleared(row) ==
    [row EXCEPT !.status = "deleted", !.rating = 0, !.review_count = 0]

SoftDeleted(row) == [row EXCEPT !.status = "deleted"]

\* The lookup without its filter on the id: .first() of all reviews.
find_review_unfiltered(db, review_id) ==
    IF DOMAIN db.reviews # {}
    THEN LET r == CHOOSE x \in DOMAIN db.reviews :
                     \A y \in DOMAIN db.reviews : x <= y
         IN  <<[id |-> r, row |-> db.reviews[r]]>>
    ELSE <<>>

\* delete_review's lookup: the review with that id.  <<>> is None.
find_review(db, review_id) ==
    IF review_id \in DOMAIN db.reviews
    THEN <<[id |-> review_id, row |-> db.reviews[review_id]]>>
    ELSE <<>>

\* The review ids of a groomer in a reviews table.
ReviewsOf(revs, groomer_id) ==
    {r \in DOMAIN revs : revs[r].groomer_id = groomer_id}

RECURSIVE SumRatings(_, _)
SumRatings(revs, ids) ==
    IF ids = {} THEN 0
    ELSE LET r == CHOOSE x \in ids : TRUE
         IN  revs[r].rating + SumRatings(revs, ids \ {r})

\* round(sum/n, 2) in hundredths; Python rounds a tie to the even digit, and
\* a tie of a mean of integers is a multiple of 1/8, exact in binary.
Round2(sum, n) ==
    LET q == (100 * sum) \div n
        r == (100 * sum) % n
    IN  IF 2 * r < n THEN q
        ELSE IF 2 * r > n THEN q + 1
        ELSE IF q % 2 = 0 THEN q ELSE q + 1

\* The engines a DatabaseManager is built on: the application's
\* (mssql+pyodbc, database.py 93) and the test suite's (sqlite).
Engines == {"mssql", "sqlite"}

\* round(float(avg_rating), 2) if avg_rating else 0.0, over the rows of a
\* reviews table that reference the groomer (func.avg is NULL for no row).
\* The query is SELECT avg(reviews.rating) over an INTEGER column, with no
\* cast: SQLite answers with the real mean, SQL Server with an int, the mean
\* truncated.
AvgRating(revs, groomer_id) ==
    LET ids == ReviewsOf(revs, groomer_id)
        sum == SumRatings(revs, ids)
        n   == Cardinality(ids)
    IN  IF ids = {} THEN 0
        ELSE IF engine = "mssql" THEN 100 * (sum \div n)
        ELSE Round2(sum, n)

\* func.count(Review.review_id) over the same filter.
CountReviews(revs, groomer_id) == Cardinality(ReviewsOf(revs, groomer_id))

\* ---------------------------------------------------------------- queries

Min(a, b) == IF a < b THEN a ELSE b

\* limit: int = Query(100, ge=1, le=100)
DefaultLimit == 100

\* .offset(skip).limit(limit) of an ordered result.
Slice(rows, skip, limit) == SubSeq(rows, skip + 1, Min(Len(rows), skip + limit))

Lower(c) ==
    CASE c = "A" -> "a" [] c = "D" -> "d" [] c = "L" -> "l"
      [] c = "O" -> "o" [] c = "R" -> "r" [] c = "S" -> "s" [] OTHER -> c

LowerStr(text) == [i \in 1..Len(text) |-> Lower(text[i])]

\* value LIKE pattern: % in the pattern stands for any run of characters and
\* _ for any one character; the caller's text is put into the pattern as it
\* is, with no escape.
RECURSIVE LikeMatch(_, _)
LikeMatch(value, pattern) ==
    IF pattern = <<>> THEN value = <<>>
    ELSE IF Head(pattern) = "%"
    THEN \/ LikeMatch(value, Tail(pattern))
         \/ value # <<>> /\ LikeMatch(Tail(value), pattern)
    ELSE /\ value # <<>>
         /\ Head(pattern) = "_" \/ Head(pattern) = Head(value)
         /\ LikeMatch(Tail(value), Tail(pattern))

\* column.ilike(f"%{pattern}%"): lower(column) LIKE lower('%pattern%').
ilike(value, pattern) ==
    LikeMatch(LowerStr(value), <<"%">> \o LowerStr(pattern) \o <<"%">>)

\* order_by(Groomer.groomer_id) alone, as get_all_groomers orders.
RECURSIVE OrderGroomers_by_id(_, _)
OrderGroomers_by_id(rows, ids) ==
    IF ids = {} THEN <<>>
    ELSE LET first == CHOOSE a \in ids : \A b \in ids : a <= b
         IN  <<first>> \o OrderGroomers_by_id(rows, ids \ {first})

\* order_by(Groomer.rating.desc(), Groomer.groomer_id)
RECURSIVE OrderGroomers(_, _)
OrderGroomers(rows, ids) ==
    IF ids = {} THEN <<>>
    ELSE LET first == CHOOSE a \in ids : \A b \in ids \ {a} :
                         \/ rows[a].rating > rows[b].rating
                         \/ rows[a].rating = rows[b].rating /\ a < b
         IN  <<first>> \o OrderGroomers(rows, ids \ {first})

\* crud.search_groomers: the ids of the rows returned.  A filter that is not
\* given is <<>>; min_rating is <<m>> when given.
search_groomers(db, location, specialization, min_rating, skip, limit) ==
    LET matching ==
          {g \in DOMAIN db.groomers :
              /\ db.groomers[g].status = "active"
              /\ location # <<>> => ilike(db.groomers[g].location, location)
              /\ specialization # <<>> =>
                    ilike(db.groomers[g].specialization, specialization)
              /\ min_rating # <<>> => db.groomers[g].rating >= min_rating[1]}
    IN  Slice(OrderGroomers(db.groomers, matching), skip, limit)

\* order_by(Review.created_at, Review.review_id): the oldest first.
RECURSIVE OrderReviews_oldest_first(_, _)
OrderReviews_oldest_first(rows, ids) ==
    IF ids = {} THEN <<>>
    ELSE LET first == CHOOSE a \in ids : \A b \in ids \ {a} :
                         \/ rows[a].created_at < rows[b].created_at
                         \/ rows[a].created_at = rows[b].created_at /\ a < b
         IN  <<first>> \o OrderReviews_oldest_first(rows, ids \ {first})

\* order_by(Review.created_at.desc(), Review.review_id)
RECURSIVE OrderReviews(_, _)
OrderReviews(rows, ids) ==
    IF ids = {} THEN <<>>
    ELSE LET first == CHOOSE a \in ids : \A b \in ids \ {a} :
                         \/ rows[a].created_at > rows[b].created_at
                         \/ rows[a].created_at = rows[b].created_at /\ a < b
         IN  <<first>> \o OrderReviews(rows, ids \ {first})

\* crud.get_groomer_reviews: the ids of the rows returned.
get_groomer_reviews(db, groomer_id, skip, limit) ==
    Slice(OrderReviews(db.reviews, ReviewsOf(db.reviews, groomer_id)),
          skip, limit)

\* ------------------------------------------------------------- telemetry

\* The kinds of value each endpoint puts in the event's context
\* (api/v1/groomers.py): the groomer id as a UUID object, or as a string.
EventContext(op) ==
    CASE op = "CreateGroomer"         -> {"UUID", "str"}
      [] op = "UpdateGroomer"         -> {"UUID"}
      [] op = "SoftDelete"            -> {"UUID"}
      [] op = "IncrementBookingCount" -> {"str", "int"}
      [] OTHER                        -> {}

\* json.dumps(payload.__dict__, ...) has no default= hook: a UUID in the
\* context makes it raise TypeError.
json_dumps_ok(context) == "UUID" \notin context

\* ------------------------------------------------------------------ Init

\* The store holds one groomer that was created earlier (an operator may have
\* set it inactive) and no review; the workers are idle.
Init ==
    /\ \E st \in {"active", "inactive"} :
          groomers = (1 :> [Groomer(CreateInput) EXCEPT !.status = st])
    /\ reviews = [r \in {} |-> Review(0, 0, 0)]
    /\ nextRid = 1
    /\ log_sender \in BOOLEAN
    /\ engine \in Engines
    \* The test suite's engine runs without a log sender (TESTING=1).
    /\ engine = "sqlite" => ~log_sender
    /\ req = [p \in Procs |-> NoRequest]
    /\ pc = [p \in Procs |-> "idle"]
    /\ sess = [p \in Procs |-> NewSession]
    /\ result = [p \in Procs |-> NoResult]
    /\ committed = [p \in Procs |-> {}]
    /\ nreq = 0
    /\ pre = [groomers |-> groomers, reviews |-> reviews]

\* ------------------------------------------------------------- requests

\* A request: the operation, its path parameters (gid, rid), its body (rating,
\* fields) and its query parameters (fields, min_rating, skip, limit).
Request(op, gid, rid, rating, fields) ==
    [op |-> op, gid |-> gid, rid |-> rid, rating |-> rating, fields |-> fields,
     min_rating |-> <<>>, skip |-> 0, limit |-> 0]

\* The requests that write, with a body the schemas accept.
Requests ==
    {Request("CreateGroomer", 0, 0, 0, CreateInput)}
    \cup {Request("UpdateGroomer", g, 0, 0, u) :
              g \in GroomerIds, u \in UpdateInputs}
    \cup {Request(o, g, 0, 0, EmptyFields) :
              o \in {"SoftDelete", "IncrementBookingCount"}, g \in GroomerIds}
    \cup {Request("CreateReview", g, 0, x, EmptyFields) :
              g \in GroomerIds, x \in ReviewRatings}
    \cup {Request("DeleteReview", 0, r, 0, EmptyFields) : r \in ReviewIds}

\* Review submissions with a rating just outside the schema's range.
InvalidRatings == {0, 6}

InvalidRequests ==
    {Request("CreateReview", g, 0, x, EmptyFields) :
        g \in GroomerIds, x \in InvalidRatings}

\* The text filters and the pages the modelled callers query with.  A filter
\* that is not in the domain is not given.
SearchFilters ==
    { EmptyFields,
      [f \in {"location"} |-> <<"S">>],
      [f \in {"location"} |-> <<"_">>],
      [f \in {"specialization"} |-> <<"d", "O">>] }

Pages ==
    { [min_rating |-> <<>>, skip |-> 0, limit |-> DefaultLimit],
      [min_rating |-> <<450>>, skip |-> 0, limit |-> DefaultLimit],
      [min_rating |-> <<0>>, skip |-> 1, limit |-> 1] }

\* The requests that read.
ReadRequests ==
    {Request("GetGroomer", g, 0, 0, EmptyFields) : g \in GroomerIds}
    \cup {[Request("SearchGroomers", 0, 0, 0, f) EXCEPT
              !.min_rating = pg.min_rating, !.skip = pg.skip,
              !.limit = pg.limit] : f \in SearchFilters, pg \in Pages}
    \cup {[Request("ListReviews", g, 0, 0, EmptyFields) EXCEPT
              !.skip = pg.skip, !.limit = pg.limit] :
              g \in GroomerIds, pg \in Pages}

\* The rating's range with the lower bound of min_rating (ge=0).
ReviewBase_ge0(rating) == rating >= 0 /\ rating <= 5

\* Direct calls of crud.recalculate_groomer_rating, as the test suite makes.
RecalculateRequests ==
    {Request("Recalculate", g, 0, 0, EmptyFields) : g \in GroomerIds}

\* ReviewBase.rating: int = Field(..., ge=1, le=5)
ReviewBase(rating) == rating >= 1 /\ rating <= 5

\* The body of the request passes the endpoint's schema.
Validates(r) == r.op = "CreateReview" => ReviewBase(r.rating)

\* The first statement of each handler.
FirstPc(op) ==
    CASE op = "CreateGroomer" -> "commit"
      [] op = "Recalculate"   -> "recalc_avg"
      [] OTHER                -> "lookup"

InFlight(p) == pc[p] \notin {"idle", "done"}

\* The bounded store has room for what the request may insert.
HasRoom(r) ==
    /\ r.op = "CreateGroomer" =>
          Cardinality(DOMAIN groomers)
            + Cardinality({q \in Procs : req[q].op = "CreateGroomer"
                                          /\ pc[q] = "commit"})
            < MaxGroomers
    /\ r.op = "CreateReview" =>
          nextRid
            + Cardinality({q \in Procs : req[q].op = "CreateReview"
                                          /\ pc[q] \in {"lookup", "flush"}})
            <= MaxReviews

\* A request arrives at worker p.  A body the schema rejects is answered at
\* once (422), before the endpoint runs; otherwise session_scope opens a new
\* session.
Begin(p, r, limit, snapshot) ==
    /\ ~InFlight(p)
    /\ nreq < limit
    /\ HasRoom(r)
    /\ req' = [req EXCEPT ![p] = r]
    /\ pc' = [pc EXCEPT ![p] = IF Validates(r) THEN FirstPc(r.op) ELSE "done"]
    /\ sess' = [sess EXCEPT ![p] =
                    IF r.op = "Recalculate"
                    THEN [NewSession EXCEPT !.gid = r.gid] ELSE NewSession]
    /\ result' = [result EXCEPT ![p] =
                    IF Validates(r) THEN NoResult
                    ELSE [NoResult EXCEPT !.outcome = "InvalidInput"]]
    /\ committed' = [committed EXCEPT ![p] = {}]
    /\ nreq' = nreq + 1
    /\ pre' = snapshot
    /\ UNCHANGED <<groomers, reviews, nextRid, log_sender, engine>>

\* The requests that the overlapping runs submit: the ones that share a
\* groomer's row and its reviews.
OverlapOps ==
    {"SoftDelete", "IncrementBookingCount", "CreateReview", "DeleteReview"}

\* Requests overlap freely.
Start(p) ==
    \E r \in Requests :
        /\ r.op \in OverlapOps
        /\ Begin(p, r, MaxOverlap, pre)

\* One request at a time, on worker 1.
StartSeq(p) ==
    /\ p = 1
    /\ \A q \in Procs : ~InFlight(q)
    /\ \E r \in Requests \cup InvalidRequests \cup ReadRequests
                  \cup RecalculateRequests :
          Begin(p, r, MaxRequests, Db)

\* --------------------------------------------------- ends of a request

\* The handler returns: the caller gets a 2xx with the row.
Return(p, outcome, telemetry, ret) ==
    /\ result' = [result EXCEPT ![p] =
                    [outcome |-> outcome, telemetry |-> telemetry, ret |-> ret]]
    /\ pc' = [pc EXCEPT ![p] = "done"]

\* The exception goes on to the caller with the session left as it is: what
\* it flushed stays pending, and so do its locks.
Raise_no_rollback(p, outcome, telemetry) ==
    /\ Return(p, outcome, telemetry, <<>>)
    /\ UNCHANGED sess

\* session_scope's except branch: session.rollback(), then the exception goes
\* on to the caller.  The flushed rows are dropped; what was committed stays.
Raise(p, outcome, telemetry) ==
    /\ Return(p, outcome, telemetry, <<>>)
    /\ sess' = [sess EXCEPT ![p] = NewSession]

\* raise HTTPException(status_code=404) inside the with block.
NotFound(p) ==
    /\ Raise(p, "NotFound", "")
    /\ UNCHANGED <<groomers, reviews, nextRid, log_sender, engine, req,
                   committed,
                   nreq, pre>>

\* The statement worker p is about to run fails (connection lost, timeout):
\* the exception leaves the with block through rollback.
DbPcs == {"lookup", "flush", "recalc_avg", "recalc_count", "recalc_commit",
          "commit", "refresh", "exit"}

PersistenceFailure(p) ==
    /\ pc[p] \in DbPcs
    /\ Raise(p, "failure", "")
    /\ UNCHANGED <<groomers, reviews, nextRid, log_sender, engine, req,
                   committed,
                   nreq, pre>>

\* -------------------------------------------- steps the handlers share

Goto(p, label) == pc' = [pc EXCEPT ![p] = label]

\* The lookup found the groomer: the session holds it, with the handler's
\* attribute assignments applied to the object.
Load(p, groomer_id, loaded, cur) ==
    sess' = [sess EXCEPT ![p].gobj = <<loaded>>, ![p].cur = <<cur>>,
                         ![p].gid = groomer_id]

\* db.commit() of a handler that changed the loaded groomer: the UPDATE of the
\* changed attributes and the COMMIT.
CommitGroomer(p, kind) ==
    /\ pc[p] = "commit"
    /\ groomers' = [groomers EXCEPT ![sess[p].gid] =
                       FlushGroomer(@, sess[p].gobj[1], sess[p].cur[1])]
    /\ committed' = [committed EXCEPT ![p] = @ \cup {kind}]
    /\ Goto(p, "refresh")
    /\ UNCHANGED <<reviews, nextRid, log_sender, engine, req, sess, result,
                   nreq, pre>>

\* db.refresh(groomer) and session.expunge: the row as committed now is what
\* the endpoint will return.
RefreshGroomer(p) ==
    /\ pc[p] = "refresh"
    /\ result' = [result EXCEPT ![p].ret = <<groomers[sess[p].gid]>>]
    /\ Goto(p, "telemetry")
    /\ UNCHANGED <<groomers, reviews, nextRid, log_sender, engine, req, sess,
                   committed, nreq, pre>>

\* ---------------------------------------------------- groomer handlers

\* POST /groomers: crud.create_groomer, then the refresh.
create_groomer(p) ==
    /\ req[p].op = "CreateGroomer"
    /\ \/ /\ pc[p] = "commit"
          /\ LET id == Cardinality(DOMAIN groomers) + 1
             IN  /\ groomers' = (id :> Groomer(req[p].fields)) @@ groomers
                 /\ sess' = [sess EXCEPT ![p].gid = id]
          /\ committed' = [committed EXCEPT ![p] = @ \cup {"groomer_insert"}]
          /\ Goto(p, "refresh")
          /\ UNCHANGED <<reviews, nextRid, log_sender, engine, req, result,
                         nreq, pre>>
       \/ RefreshGroomer(p)

\* The update as a full replacement of the profile: an optional field the
\* request does not set becomes null.
ApplyUpdate_put(row, update_data) ==
    [c \in DOMAIN row |->
        IF c \in DOMAIN update_data THEN update_data[c]
        ELSE IF c = "specialization" THEN <<>> ELSE row[c]]

\* The update with the status among the fields it writes: an edited profile
\* becomes active.
ApplyUpdate_reactivate(row, update_data) ==
    [c \in DOMAIN row |->
        IF c \in DOMAIN update_data THEN update_data[c]
        ELSE IF c = "status" THEN "active" ELSE row[c]]

\* for field, value in update_data.items(): setattr(groomer, field, value),
\* where update_data is the request's body without the fields it did not set.
ApplyUpdate(row, update_data) ==
    [c \in DOMAIN row |->
        IF c \in DOMAIN update_data THEN update_data[c] ELSE row[c]]

\* The columns declared nullable=False hold a value (None is <<>>).
NotNullColumns == {"first_name", "last_name", "location"}

NotNull(row) == \A c \in NotNullColumns : row[c] # <<>>

\* PUT /groomers/{id}: crud.update_groomer.  The UPDATE of a row that would
\* put NULL in a NOT NULL column fails with an integrity error.
update_groomer(p) ==
    /\ req[p].op = "UpdateGroomer"
    /\ \/ /\ pc[p] = "lookup"
          /\ LET found == get_groomer(Db, req[p].gid)
             IN  IF found = <<>> THEN NotFound(p)
                 ELSE /\ Load(p, req[p].gid, found[1],
                              ApplyUpdate(found[1], req[p].fields))
                      /\ Goto(p, "commit")
                      /\ UNCHANGED <<groomers, reviews, nextRid, log_sender,
                                     engine,
                                     req, result, committed, nreq, pre>>
       \/ /\ pc[p] = "commit"
          /\ IF NotNull(sess[p].cur[1])
             THEN CommitGroomer(p, "groomer_update")
             ELSE /\ Raise(p, "failure", "")
                  /\ UNCHANGED <<groomers, reviews, nextRid, log_sender,
                                 engine, req,
                                 committed, nreq, pre>>
       \/ RefreshGroomer(p)

\* DELETE /groomers/{id}: crud.soft_delete_groomer.
soft_delete_groomer(p) ==
    /\ req[p].op = "SoftDelete"
    /\ \/ /\ pc[p] = "lookup"
          /\ LET found == get_any_groomer(Db, req[p].gid)
             IN  IF found = <<>> THEN NotFound(p)
                 ELSE /\ Load(p, req[p].gid, found[1],
                              SoftDeleted(found[1]))
                      /\ Goto(p, "commit")
                      /\ UNCHANGED <<groomers, reviews, nextRid, log_sender,
                                     engine,
                                     req, result, committed, nreq, pre>>
       \/ CommitGroomer(p, "groomer_status")
       \/ RefreshGroomer(p)

\* POST /groomers/{id}/increment-booking-count: crud.increment_booking_count.
\* groomer.total_bookings_count += 1 adds one to the value the object loaded.
increment_booking_count(p) ==
    /\ req[p].op = "IncrementBookingCount"
    /\ \/ /\ pc[p] = "lookup"
          /\ LET found == get_groomer(Db, req[p].gid)
             IN  IF found = <<>> THEN NotFound(p)
                 ELSE /\ Load(p, req[p].gid, found[1],
                              [found[1] EXCEPT !.total_bookings_count = @ + 1])
                      /\ Goto(p, "commit")
                      /\ UNCHANGED <<groomers, reviews, nextRid, log_sender,
                                     engine,
                                     req, result, committed, nreq, pre>>
       \/ CommitGroomer(p, "groomer_bookings")
       \/ RefreshGroomer(p)

\* UnifiedLogQueueSender.send as the groomer endpoints await it, after the
\* commit.  The payload is serialised before the try block; only the queue
\* calls are inside it.
send(p) ==
    /\ pc[p] = "telemetry"
    /\ IF ~log_sender
       THEN /\ Return(p, "ok", "", result[p].ret)
            /\ UNCHANGED sess
       ELSE IF ~json_dumps_ok(EventContext(req[p].op))
       THEN Raise(p, "failure", "raised")
       ELSE /\ \E delivered \in BOOLEAN :
                 Return(p, "ok", IF delivered THEN "sent" ELSE "absorbed",
                        result[p].ret)
            /\ UNCHANGED sess
    /\ UNCHANGED <<groomers, reviews, nextRid, log_sender, engine, req,
                   committed,
                   nreq, pre>>

\* GET /groomers/{id}: crud.get_groomer, 404 when it returns None.
GetGroomer(p) ==
    /\ req[p].op = "GetGroomer"
    /\ pc[p] = "lookup"
    /\ LET groomer == get_groomer(Db, req[p].gid)
       IN  IF groomer = <<>> THEN NotFound(p)
           ELSE /\ Return(p, "ok", "", groomer)
                /\ UNCHANGED <<groomers, reviews, nextRid, log_sender, engine,
                               req,
                               sess, committed, nreq, pre>>

\* A query parameter of the request, <<>> when it is not given.
QueryText(r, name) == IF name \in DOMAIN r.fields THEN r.fields[name] ELSE <<>>

\* GET /groomers: crud.search_groomers with the query parameters.
SearchGroomers(p) ==
    /\ req[p].op = "SearchGroomers"
    /\ pc[p] = "lookup"
    /\ Return(p, "ok", "",
              search_groomers(Db, QueryText(req[p], "location"),
                              QueryText(req[p], "specialization"),
                              req[p].min_rating, req[p].skip, req[p].limit))
    /\ UNCHANGED <<groomers, reviews, nextRid, log_sender, engine, req, sess,
                   committed, nreq, pre>>

\* ----------------------------------------------------- review handlers

\* GET /groomers/{id}/reviews: crud.get_groomer_reviews.
ListReviews(p) ==
    /\ req[p].op = "ListReviews"
    /\ pc[p] = "lookup"
    /\ Return(p, "ok", "",
              get_groomer_reviews(Db, req[p].gid, req[p].skip, req[p].limit))
    /\ UNCHANGED <<groomers, reviews, nextRid, log_sender, engine, req, sess,
                   committed, nreq, pre>>

\* A review read from an object whose created_at was never loaded.
ReviewRead_unloaded(review_id, row) ==
    [review_id |-> review_id, groomer_id |-> row.groomer_id,
     rating |-> row.rating, created_at |-> 0]

\* A review as the endpoints return it (ReviewRead).
ReviewRead(review_id, row) ==
    [review_id |-> review_id, groomer_id |-> row.groomer_id,
     rating |-> row.rating, created_at |-> row.created_at]

\* crud.recalculate_groomer_rating as create_review and delete_review call it,
\* one statement at a time: the groomer lookup and the average, the count,
\* then the commit (the UPDATE of the groomer, and with it the session's
\* flushed review rows).  A groomer the lookup does not find ends it at once,
\* with nothing committed.
recalculate_groomer_rating(p) ==
    /\ req[p].op \in {"CreateReview", "DeleteReview", "Recalculate"}
    /\ \/ /\ pc[p] = "recalc_avg"
          /\ LET found == get_groomer(Db, sess[p].gid)
                 loaded == IF sess[p].gobj # <<>> THEN sess[p].gobj[1]
                           ELSE found[1]
                 object == IF sess[p].cur # <<>> THEN sess[p].cur[1]
                           ELSE found[1]
             IN  IF found = <<>>
                 THEN /\ Goto(p, "exit")
                      /\ UNCHANGED sess
                 ELSE /\ Load(p, sess[p].gid, loaded,
                              [object EXCEPT !.rating =
                                  AvgRating(SessionReviews(p), sess[p].gid)])
                      /\ Goto(p, "recalc_count")
          /\ UNCHANGED <<groomers, reviews, nextRid, log_sender, engine, req,
                         result,
                         committed, nreq, pre>>
       \/ /\ pc[p] = "recalc_count"
          /\ sess' = [sess EXCEPT ![p].cur[1].review_count =
                          CountReviews(SessionReviews(p), sess[p].gid)]
          /\ Goto(p, "recalc_commit")
          /\ UNCHANGED <<groomers, reviews, nextRid, log_sender, engine, req,
                         result,
                         committed, nreq, pre>>
       \/ /\ pc[p] = "recalc_commit"
          /\ groomers' = [groomers EXCEPT ![sess[p].gid] =
                             FlushGroomer(@, sess[p].gobj[1], sess[p].cur[1])]
          /\ reviews' = SessionReviews(p)
          /\ committed' = [committed EXCEPT ![p] =
                              @ \cup PendingKinds(p) \cup {"recalc"}]
          /\ sess' = [sess EXCEPT ![p].ins = <<>>, ![p].del = 0]
          /\ Goto(p, "exit")
          /\ UNCHANGED <<nextRid, log_sender, engine, req, result, nreq, pre>>

\* A direct call of crud.recalculate_groomer_rating returns: the groomer as
\* committed, or None when the lookup did not find it.
Recalculate(p) ==
    /\ req[p].op = "Recalculate"
    /\ pc[p] = "exit"
    /\ IF "recalc" \in committed[p]
       THEN Return(p, "ok", "", <<groomers[sess[p].gid]>>)
       ELSE Return(p, "NotFound", "", <<>>)
    /\ sess' = [sess EXCEPT ![p] = NewSession]
    /\ UNCHANGED <<groomers, reviews, nextRid, log_sender, engine, req,
                   committed, nreq, pre>>

\* The end of the with block of the review endpoints: session.commit() makes
\* the rows that are still only flushed permanent.
session_scope(p, ret) ==
    /\ reviews' = SessionReviews(p)
    /\ committed' = [committed EXCEPT ![p] = @ \cup PendingKinds(p)]
    /\ sess' = [sess EXCEPT ![p].ins = <<>>, ![p].del = 0]
    /\ Return(p, "ok", "", ret)
    /\ UNCHANGED <<groomers, nextRid, log_sender, engine, req, nreq, pre>>

\* POST /groomers/{id}/reviews: crud.create_review.
create_review(p) ==
    /\ req[p].op = "CreateReview"
    /\ \/ /\ pc[p] = "lookup"
          /\ LET found == get_groomer(Db, req[p].gid)
             IN  IF found = <<>> THEN NotFound(p)
                 ELSE /\ Load(p, req[p].gid, found[1], found[1])
                      /\ Goto(p, "flush")
                      /\ UNCHANGED <<groomers, reviews, nextRid, log_sender,
                                     engine,
                                     req, result, committed, nreq, pre>>
       \/ /\ pc[p] = "flush"
          /\ sess' = [sess EXCEPT
                        ![p].ins = <<[id  |-> nextRid,
                                      row |-> Review(req[p].gid, req[p].rating,
                                                     ClockAt(nextRid))]>>,
                        ![p].rid = nextRid]
          /\ nextRid' = nextRid + 1
          /\ Goto(p, "recalc_avg")
          /\ UNCHANGED <<groomers, reviews, log_sender, engine, req, result,
                         committed, nreq, pre>>
       \/ /\ pc[p] = "exit"
          \* db.refresh(review) raises when the row is gone again.
          /\ IF sess[p].rid \notin DOMAIN SessionReviews(p)
             THEN /\ Raise(p, "failure", "")
                  /\ UNCHANGED <<groomers, reviews, nextRid, log_sender,
                                 engine, req,
                                 committed, nreq, pre>>
             ELSE session_scope(p,
                    <<ReviewRead(sess[p].rid, SessionReviews(p)[sess[p].rid])>>)

\* DELETE /groomers/reviews/{id}: crud.delete_review.
delete_review(p) ==
    /\ req[p].op = "DeleteReview"
    /\ \/ /\ pc[p] = "lookup"
          /\ LET review == find_review(Db, req[p].rid)
             IN  IF review = <<>> THEN NotFound(p)
                 ELSE /\ sess' = [sess EXCEPT
                                    ![p].snap = <<ReviewRead(review[1].id,
                                                             review[1].row)>>,
                                    ![p].gid = review[1].row.groomer_id]
                      /\ Goto(p, "flush")
                      /\ UNCHANGED <<groomers, reviews, nextRid, log_sender,
                                     engine,
                                     req, result, committed, nreq, pre>>
       \/ /\ pc[p] = "flush"
          \* The DELETE waits for another session's uncommitted DELETE of the row.
          /\ \A q \in Procs \ {p} : sess[q].del # sess[p].snap[1].review_id
          /\ IF sess[p].snap[1].review_id \in DOMAIN reviews
             THEN /\ sess' = [sess EXCEPT ![p].del = sess[p].snap[1].review_id]
                  /\ Goto(p, "recalc_avg")
                  /\ UNCHANGED result
             \* The row went away meanwhile: the ORM warns about the row
             \* count and goes on, or reports stale data, by its version.
             ELSE \/ /\ Goto(p, "recalc_avg")
                     /\ UNCHANGED <<sess, result>>
                  \/ Raise(p, "failure", "")
          /\ UNCHANGED <<groomers, reviews, nextRid, log_sender, engine, req,
                         committed, nreq, pre>>
       \/ /\ pc[p] = "exit"
          /\ session_scope(p, sess[p].snap)

\* ----------------------------------------------------- specifications

Handler(p) ==
    \/ create_groomer(p)
    \/ update_groomer(p)
    \/ soft_delete_groomer(p)
    \/ increment_booking_count(p)
    \/ create_review(p)
    \/ delete_review(p)
    \/ recalculate_groomer_rating(p)
    \/ send(p)
    \/ GetGroomer(p)
    \/ SearchGroomers(p)
    \/ ListReviews(p)
    \/ Recalculate(p)
    \/ PersistenceFailure(p)

\* Requests served one after the other.
NextSeq == \E p \in Procs : StartSeq(p) \/ Handler(p)

SpecSeq == Init /\ [][NextSeq]_vars

\* Review submissions and deletions for groomer 1, one after the other and as
\* many as the review ids last: the ratings are whole stars from the middle of
\* the scale upwards.
LedgerRatings == {3, 4, 5}

LedgerRequests ==
    {Request("CreateReview", 1, 0, x, EmptyFields) : x \in LedgerRatings}
    \cup {Request("DeleteReview", 0, r, 0, EmptyFields) : r \in 1..MaxLedger}

StartLedger(p) ==
    /\ p = 1
    /\ \A q \in Procs : ~InFlight(q)
    /\ \E r \in LedgerRequests :
          /\ r.op = "CreateReview" => nextRid <= MaxLedger
          /\ req' = [req EXCEPT ![p] = r]
          /\ pc' = [pc EXCEPT ![p] = FirstPc(r.op)]
    /\ sess' = [sess EXCEPT ![p] = NewSession]
    /\ result' = [result EXCEPT ![p] = NoResult]
    /\ committed' = [committed EXCEPT ![p] = {}]
    /\ pre' = Db
    /\ UNCHANGED <<groomers, reviews, nextRid, log_sender, engine, nreq>>

NextLedger ==
    \E p \in Procs :
        \/ StartLedger(p)
        \/ create_review(p)
        \/ delete_review(p)
        \/ recalculate_groomer_rating(p)
        \/ PersistenceFailure(p)

SpecLedger == Init /\ [][NextLedger]_vars

\* Requests served concurrently by the workers.
Next ==
    \E p \in Procs :
        \/ Start(p)
        \/ soft_delete_groomer(p)
        \/ increment_booking_count(p)
        \/ create_review(p)
        \/ delete_review(p)
        \/ recalculate_groomer_rating(p)
        \/ send(p)
        \/ PersistenceFailure(p)

Spec == Init /\ [][Next]_vars

\* A worker thread that can take its next step takes it in the end: the
\* server keeps running the handler until it returns or raises.  Nothing makes
\* a request arrive or a statement fail.
Step(p) ==
    \/ soft_delete_groomer(p)
    \/ increment_booking_count(p)
    \/ create_review(p)
    \/ delete_review(p)
    \/ recalculate_groomer_rating(p)
    \/ send(p)

\* Overlapping requests that all concern groomer 1 and its reviews.
StartLive(p) ==
    \E r \in Requests :
        /\ r.op \in OverlapOps
        /\ r.op # "DeleteReview" => r.gid = 1
        /\ Begin(p, r, MaxOverlap, pre)

NextLive == \E p \in Procs : StartLive(p) \/ Step(p) \/ PersistenceFailure(p)

\* The row locks that make a statement wait are those of the application's
\* engine.
InitLive == Init /\ engine = "mssql"

SpecLive == InitLive /\ [][NextLive]_vars /\ \A p \in Procs : WF_vars(Step(p))

\* ================================================================ claims

AllIdle == \A p \in Procs : ~InFlight(p)

\* The mean of the ratings of the reviews that reference groomer g now, in
\* hundredths rounded to the nearest (0 when there is none).
ExpectedRating(g) ==
    LET ids == {r \in DOMAIN reviews : reviews[r].groomer_id = g}
    IN  IF ids = {} THEN 0
        ELSE Round2(SumRatings(reviews, ids), Cardinality(ids))

ExpectedCount(g) ==
    Cardinality({r \in DOMAIN reviews : reviews[r].groomer_id = g})

\* A groomer id that a lookup by Get's rule does not find in tables db.
NotVisible(db, g) ==
    g \notin DOMAIN db.groomers \/ db.groomers[g].status = "deleted"

\* C1: between the requests of a sequential run, every groomer's stored
\* rating is the rounded mean of its current reviews (0.0 without any) and
\* its stored review_count is their number, whatever the groomer's status.
C1_AggregateMatchesReviews ==
    AllIdle =>
        \A g \in DOMAIN groomers :
            /\ groomers[g].rating = ExpectedRating(g)
            /\ groomers[g].review_count = ExpectedCount(g)

\* C2: when the only two requests of a run are CreateReview requests for the
\* same groomer and both have returned the created review, the groomer's
\* review_count and rating account for both reviews.
C2_NoLostUpdate ==
    \A p, q \in Procs :
        ( /\ p # q
          /\ nreq = 2
          /\ pc[p] = "done" /\ pc[q] = "done"
          /\ req[p].op = "CreateReview" /\ req[q].op = "CreateReview"
          /\ req[p].gid = req[q].gid
          /\ result[p].outcome = "ok" /\ result[q].outcome = "ok" )
        => /\ groomers[req[p].gid].review_count = 2
           /\ groomers[req[p].gid].rating = ExpectedRating(req[p].gid)

\* C3: a request never has a review insert or delete committed without the
\* recomputation of the owning groomer's aggregate committed with it.
C3_ReviewChangeWithRecompute ==
    \A p \in Procs :
        committed[p] \cap {"review_insert", "review_delete"} # {}
            => "recalc" \in committed[p]

\* C4: a CreateReview, with a body the schema accepts, for a groomer id that
\* was absent or deleted when the request began ends NotFound (or with the
\* failure of the lookup statement itself), and leaves both tables as they
\* were.
C4_CreateReviewNotFound ==
    \A p \in Procs :
        ( /\ pc[p] = "done"
          /\ req[p].op = "CreateReview"
          /\ req[p].rating \in ReviewRatings
          /\ NotVisible(pre, req[p].gid) )
        => /\ result[p].outcome \in {"NotFound", "failure"}
           /\ committed[p] = {}
           /\ Db = pre

C4_Witness ==
    \E p \in Procs :
        /\ pc[p] = "done"
        /\ req[p].op = "CreateReview"
        /\ req[p].rating \in ReviewRatings
        /\ req[p].gid \in DOMAIN pre.groomers
        /\ pre.groomers[req[p].gid].status = "deleted"
        /\ pre.groomers[req[p].gid].review_count > 0
        /\ result[p].outcome = "NotFound"

\* C5: a DeleteReview for a review id that did not exist when the request
\* began ends NotFound (or with the failure of the lookup statement itself),
\* and leaves both tables as they were.
C5_DeleteReviewNotFound ==
    \A p \in Procs :
        ( /\ pc[p] = "done"
          /\ req[p].op = "DeleteReview"
          /\ req[p].rid \notin DOMAIN pre.reviews )
        => /\ result[p].outcome \in {"NotFound", "failure"}
           /\ committed[p] = {}
           /\ Db = pre

C5_Witness ==
    \E p \in Procs :
        /\ pc[p] = "done"
        /\ req[p].op = "DeleteReview"
        /\ req[p].rid \notin DOMAIN pre.reviews
        /\ DOMAIN pre.reviews # {}
        /\ result[p].outcome = "NotFound"

\* C6: between the requests of a sequential run, a groomer without reviews
\* has rating 0.0 and review_count 0.
C6_NoReviewsMeansZero ==
    AllIdle =>
        \A g \in DOMAIN groomers :
            ExpectedCount(g) = 0
                => groomers[g].rating = 0 /\ groomers[g].review_count = 0

\* C7: when the only two requests of a run are IncrementBookingCount requests
\* for the same groomer and both have succeeded, its total_bookings_count has
\* grown by two.
C7_IncrementsAddUp ==
    \A p, q \in Procs :
        ( /\ p # q
          /\ nreq = 2
          /\ pc[p] = "done" /\ pc[q] = "done"
          /\ req[p].op = "IncrementBookingCount"
          /\ req[q].op = "IncrementBookingCount"
          /\ req[p].gid = req[q].gid
          /\ result[p].outcome = "ok" /\ result[q].outcome = "ok" )
        => groomers[req[p].gid].total_bookings_count = 2

\* C8: a groomer request whose telemetry event could not be emitted still
\* returns to its caller what it returns with telemetry disabled: success,
\* with the groomer row.
C8_TelemetryFailureAbsorbed ==
    \A p \in Procs :
        ( /\ pc[p] = "done"
          /\ result[p].telemetry \in {"raised", "absorbed"} )
        => /\ result[p].outcome = "ok"
           /\ result[p].ret # <<>>

\* C9: a request that ended in a failure surfaced to its caller has committed
\* none of its writes.
C9_FailureCommitsNothing ==
    \A p \in Procs :
        ( /\ pc[p] = "done"
          /\ result[p].outcome \in {"failure", "NotFound"} )
        => committed[p] = {}

\* The filters and pages the modelled callers search with.
SearchTexts == {<<>>, <<"o">>, <<"D">>}
SearchMinRatings == {<<>>, <<0>>, <<450>>}

Range(f) == {f[i] : i \in DOMAIN f}

\* A SoftDelete of groomer g has committed.
SoftDeleteCommitted(g) ==
    \E p \in Procs :
        /\ req[p].op = "SoftDelete"
        /\ req[p].gid = g
        /\ "groomer_status" \in committed[p]

\* C10: once a SoftDelete of a groomer has committed (its status is deleted),
\* Get of it finds nothing, no Search returns it, and ListReviews of it
\* returns every review that references it.
C10_SoftDeletedInvisible ==
    \A g \in DOMAIN groomers :
        (groomers[g].status = "deleted" \/ SoftDeleteCommitted(g))
        => /\ get_groomer(Db, g) = <<>>
           /\ \A location \in SearchTexts, specialization \in SearchTexts,
                 min_rating \in SearchMinRatings,
                 skip \in 0..1, limit \in 1..MaxGroomers :
                 g \notin Range(search_groomers(Db, location, specialization,
                                                min_rating, skip, limit))
           /\ Range(get_groomer_reviews(Db, g, 0, DefaultLimit))
                 = {r \in DOMAIN reviews : reviews[r].groomer_id = g}
           /\ Len(get_groomer_reviews(Db, g, 0, DefaultLimit))
                 = ExpectedCount(g)

C10_Witness ==
    \E g \in DOMAIN groomers :
        /\ SoftDeleteCommitted(g)
        /\ groomers[g].status = "deleted"
        /\ ExpectedCount(g) > 0
        /\ AllIdle

\* The request of worker p has ended, and not because a statement of it
\* failed in the store.
Ended(p) ==
    /\ pc[p] = "done"
    /\ ~(result[p].outcome = "failure" /\ result[p].telemetry = "")

\* C11: a SoftDelete of a groomer that was already deleted when the request
\* began succeeds, returns the row with status deleted, leaves both tables as
\* they were, and a Get of the groomer still finds nothing.
C11_SoftDeleteIdempotent ==
    \A p \in Procs :
        ( /\ Ended(p)
          /\ req[p].op = "SoftDelete"
          /\ req[p].gid \in DOMAIN pre.groomers
          /\ pre.groomers[req[p].gid].status = "deleted" )
        => /\ result[p].outcome = "ok"
           /\ result[p].ret = <<pre.groomers[req[p].gid]>>
           /\ Db = pre
           /\ NotVisible(Db, req[p].gid)

\* C12: a Get returns the groomer's row exactly when a row with that id exists
\* and its status is not deleted, reports NotFound otherwise (unless the
\* lookup statement itself fails), and writes nothing.
C12_GetReturnsVisible ==
    \A p \in Procs :
        (pc[p] = "done" /\ req[p].op = "GetGroomer")
        => /\ Db = pre
           /\ committed[p] = {}
           /\ result[p].outcome \in {"ok", "NotFound", "failure"}
           /\ result[p].outcome = "ok" =>
                 /\ req[p].gid \in DOMAIN pre.groomers
                 /\ pre.groomers[req[p].gid].status \in {"active", "inactive"}
                 /\ result[p].ret = <<pre.groomers[req[p].gid]>>
           /\ result[p].outcome = "NotFound" =>
                 \/ req[p].gid \notin DOMAIN pre.groomers
                 \/ pre.groomers[req[p].gid].status = "deleted"

C12_Witness ==
    \E p \in Procs :
        /\ pc[p] = "done"
        /\ req[p].op = "GetGroomer"
        /\ result[p].outcome = "ok"
        /\ result[p].ret[1].status = "inactive"
        /\ result[p].ret[1].review_count > 0

\* The text occurs in the value as a substring, letter case ignored.
Contains(value, text) ==
    \E i \in 0..(Len(value) - Len(text)) :
        SubSeq(LowerStr(value), i + 1, i + Len(text)) = LowerStr(text)

\* The groomers of tables db that a search request r is to return: the active
\* ones that satisfy every filter the request supplies.
Matching(db, r) ==
    {g \in DOMAIN db.groomers :
        /\ db.groomers[g].status = "active"
        /\ "location" \in DOMAIN r.fields =>
              Contains(db.groomers[g].location, r.fields["location"])
        /\ "specialization" \in DOMAIN r.fields =>
              Contains(db.groomers[g].specialization, r.fields["specialization"])
        /\ r.min_rating # <<>> => db.groomers[g].rating >= r.min_rating[1]}

\* C13: a Search returns only active groomers that satisfy every supplied
\* filter (location and specialization as case-insensitive substrings,
\* min_rating as an inclusive lower bound), and all of them when the page
\* covers the whole result.
C13_SearchReturnsMatching ==
    \A p \in Procs :
        (pc[p] = "done" /\ req[p].op = "SearchGroomers"
            /\ result[p].outcome = "ok")
        => /\ Range(result[p].ret) \subseteq Matching(pre, req[p])
           /\ (req[p].skip = 0 /\ req[p].limit >= MaxGroomers) =>
                 Range(result[p].ret) = Matching(pre, req[p])

\* The groomers of tables db that pass the filters of search request r as the
\* query evaluates them.
Selected(db, r) ==
    {g \in DOMAIN db.groomers :
        /\ db.groomers[g].status = "active"
        /\ "location" \in DOMAIN r.fields =>
              ilike(db.groomers[g].location, r.fields["location"])
        /\ "specialization" \in DOMAIN r.fields =>
              ilike(db.groomers[g].specialization, r.fields["specialization"])
        /\ r.min_rating # <<>> => db.groomers[g].rating >= r.min_rating[1]}

\* How many groomers of set ids come before g: a higher rating first, the
\* lower id first among equal ratings.
RankGroomer(db, ids, g) ==
    Cardinality({h \in ids :
        \/ db.groomers[h].rating > db.groomers[g].rating
        \/ db.groomers[h].rating = db.groomers[g].rating /\ h < g})

C15_UpdateFrame ==
    \A p \in Procs :
        req[p].op = "UpdateGroomer"
        => LET g == req[p].gid
               set == DOMAIN req[p].fields
           IN  /\ reviews = pre.reviews
               /\ DOMAIN groomers = DOMAIN pre.groomers
               /\ \A h \in DOMAIN groomers \ {g} : groomers[h] = pre.groomers[h]
               /\ g \in DOMAIN groomers =>
                     /\ \A c \in DOMAIN groomers[g] \ set :
                           groomers[g][c] = pre.groomers[g][c]
                     /\ IF "groomer_update" \in committed[p]
                        THEN \A c \in set : groomers[g][c] = req[p].fields[c]
                        ELSE groomers[g] = pre.groomers[g]
               /\ g \notin DOMAIN groomers => committed[p] = {}
               /\ ( /\ Ended(p)
                     /\ ~NotVisible(pre, g)
                     /\ \A c \in set \cap NotNullColumns :
                           req[p].fields[c] # <<>> )
                  => "groomer_update" \in committed[p]

C15_Witness ==
    \E p \in Procs :
        /\ pc[p] = "done"
        /\ req[p].op = "UpdateGroomer"
        /\ DOMAIN req[p].fields = {"location"}
        /\ "groomer_update" \in committed[p]
        /\ groomers[req[p].gid].location # pre.groomers[req[p].gid].location
        /\ groomers[req[p].gid].review_count > 0
        /\ groomers[req[p].gid].specialization # <<>>

\* C16: a DeleteReview that succeeds returns the id, the groomer id, the
\* rating and the creation time the review had when the request began, and
\* leaves the reviews table without that row and otherwise as it was; a
\* DeleteReview of an existing review succeeds unless a statement of it fails;
\* and what a CreateReview returns are the values of the row it stored.
C16_DeleteReturnsSnapshot ==
    \A p \in Procs :
        /\ (pc[p] = "done" /\ req[p].op = "DeleteReview"
               /\ result[p].outcome = "ok")
           => /\ req[p].rid \in DOMAIN pre.reviews
              /\ Len(result[p].ret) = 1
              /\ result[p].ret[1].review_id = req[p].rid
              /\ result[p].ret[1].groomer_id = pre.reviews[req[p].rid].groomer_id
              /\ result[p].ret[1].rating = pre.reviews[req[p].rid].rating
              /\ result[p].ret[1].created_at = pre.reviews[req[p].rid].created_at
              /\ DOMAIN reviews = DOMAIN pre.reviews \ {req[p].rid}
              /\ \A r \in DOMAIN reviews : reviews[r] = pre.reviews[r]
        /\ (Ended(p) /\ req[p].op = "DeleteReview"
               /\ req[p].rid \in DOMAIN pre.reviews)
           => result[p].outcome = "ok"
        /\ (pc[p] = "done" /\ req[p].op = "CreateReview"
               /\ result[p].outcome = "ok")
           => /\ result[p].ret[1].review_id \in DOMAIN reviews \ DOMAIN pre.reviews
              /\ LET row == reviews[result[p].ret[1].review_id]
                 IN  /\ result[p].ret[1].groomer_id = row.groomer_id
                     /\ result[p].ret[1].rating = row.rating
                     /\ result[p].ret[1].created_at = row.created_at

C16_Witness ==
    \E p \in Procs :
        /\ pc[p] = "done"
        /\ req[p].op = "DeleteReview"
        /\ result[p].outcome = "ok"
        /\ result[p].ret[1].rating = 4
        /\ req[p].rid \notin DOMAIN reviews
        /\ \E r \in DOMAIN reviews :
              /\ reviews[r].groomer_id = result[p].ret[1].groomer_id
              /\ reviews[r].rating = 5

\* How many reviews of set ids come before r: the later creation time first,
\* the lower id first among equal creation times.
RankReview(db, ids, r) ==
    Cardinality({x \in ids :
        \/ db.reviews[x].created_at > db.reviews[r].created_at
        \/ db.reviews[x].created_at = db.reviews[r].created_at /\ x < r})

\* C17: the list a ListReviews returns is the slice [skip, skip+limit) of the
\* reviews that reference the groomer, in the order creation time descending,
\* id ascending: its i-th element is the groomer's review with skip+i-1 of
\* them before it.  It holds no review of another groomer, the request writes
\* nothing, and it succeeds unless its statement fails.
C17_ListReviewsPage ==
    \A p \in Procs :
        (pc[p] = "done" /\ req[p].op = "ListReviews")
        => LET ids == {r \in DOMAIN pre.reviews :
                          pre.reviews[r].groomer_id = req[p].gid}
               ret == result[p].ret
               rest == IF Cardinality(ids) > req[p].skip
                       THEN Cardinality(ids) - req[p].skip ELSE 0
           IN  /\ Db = pre
               /\ committed[p] = {}
               /\ Ended(p) => result[p].outcome = "ok"
               /\ result[p].outcome = "ok" =>
                     /\ Len(ret) = Min(req[p].limit, rest)
                     /\ \A i \in 1..Len(ret) :
                           /\ ret[i] \in ids
                           /\ RankReview(pre, ids, ret[i]) = req[p].skip + i - 1

C17_Witness ==
    \E p \in Procs :
        /\ pc[p] = "done"
        /\ req[p].op = "ListReviews"
        /\ result[p].outcome = "ok"
        /\ Len(result[p].ret) = 3
        /\ reviews[result[p].ret[1]].created_at
              > reviews[result[p].ret[2]].created_at
        /\ reviews[result[p].ret[2]].created_at
              = reviews[result[p].ret[3]].created_at
        /\ result[p].ret[1] > result[p].ret[2]

\* C18: a CreateReview with a rating outside 1..5 ends InvalidInput with
\* nothing written; one with a rating inside 1..5 for a groomer that is
\* visible is accepted (it succeeds unless a statement of it fails); and
\* every review row, stored or flushed, has a rating in 1..5.
C18_RatingValidated ==
    /\ \A p \in Procs :
          (pc[p] = "done" /\ req[p].op = "CreateReview")
          => /\ req[p].rating \notin 1..5 =>
                   /\ result[p].outcome = "InvalidInput"
                   /\ result[p].ret = <<>>
                   /\ committed[p] = {}
                   /\ sess[p] = NewSession
                   /\ Db = pre
             /\ (req[p].rating \in 1..5 /\ ~NotVisible(pre, req[p].gid)
                    /\ Ended(p))
                => /\ result[p].outcome = "ok"
                   /\ result[p].ret[1].rating = req[p].rating
    /\ \A r \in DOMAIN reviews : reviews[r].rating \in 1..5
    /\ \A p \in Procs :
          sess[p].ins # <<>> => sess[p].ins[1].row.rating \in 1..5

C18_Witness ==
    \E p \in Procs :
        /\ pc[p] = "done"
        /\ req[p].op = "CreateReview"
        /\ req[p].rating = 0
        /\ ~NotVisible(pre, req[p].gid)
        /\ pre.groomers[req[p].gid].review_count > 0
        /\ result[p].outcome = "InvalidInput"

\* C19: a CreateGroomer succeeds unless a statement of it fails in the store,
\* returns the new row, and adds exactly one groomer, under an id that was
\* not in use, with status active, rating 0.0 and the three counts 0, leaving
\* the other groomers and the reviews as they were.
C19_CreateGroomerSucceeds ==
    \A p \in Procs :
        (Ended(p) /\ req[p].op = "CreateGroomer")
        => /\ result[p].outcome = "ok"
           /\ reviews = pre.reviews
           /\ \A g \in DOMAIN pre.groomers :
                 g \in DOMAIN groomers /\ groomers[g] = pre.groomers[g]
           /\ \E id \in DOMAIN groomers \ DOMAIN pre.groomers :
                 /\ DOMAIN groomers = DOMAIN pre.groomers \cup {id}
                 /\ result[p].ret = <<groomers[id]>>
                 /\ groomers[id].status = "active"
                 /\ groomers[id].rating = 0
                 /\ groomers[id].review_count = 0
                 /\ groomers[id].complaint_count = 0
                 /\ groomers[id].total_bookings_count = 0
                 /\ \A c \in ProfileFields :
                       groomers[id][c] = req[p].fields[c]

\* C20: in every step, every groomer row stays in the table; a status that
\* changes changes to deleted, in the commit of a SoftDelete of that groomer;
\* and a status that is deleted stays deleted.
C20_StatusOnlyToDeleted ==
    [][\A g \in DOMAIN groomers :
          /\ g \in DOMAIN groomers'
          /\ groomers'[g].status # groomers[g].status =>
                /\ groomers'[g].status = "deleted"
                /\ \E p \in Procs :
                      /\ req[p].op = "SoftDelete"
                      /\ req[p].gid = g
                      /\ pc[p] = "commit"
                      /\ pc'[p] = "refresh"
          /\ groomers[g].status = "deleted" =>
                groomers'[g].status = "deleted"]_vars

\* A review of a deleted groomer has been deleted, and a review submitted for
\* it has been turned away.
C20_Witness ==
    \E p \in Procs :
        /\ pc[p] = "done"
        /\ req[p].op = "DeleteReview"
        /\ result[p].outcome = "ok"
        /\ "review_delete" \in committed[p]
        /\ pre.groomers[result[p].ret[1].groomer_id].status = "deleted"
        /\ groomers[result[p].ret[1].groomer_id].status = "deleted"
        /\ groomers[result[p].ret[1].groomer_id].total_bookings_count > 0

\* C21: an Update or an IncrementBookingCount of a groomer id that was absent
\* or deleted when the request began ends NotFound (or with the failure of the
\* lookup statement itself) and leaves both tables as they were; a SoftDelete
\* ends NotFound only for an id without a row, and then, too, leaves both
\* tables as they were; a SoftDelete of an id with a row, whatever its status,
\* does not end NotFound.
C21_NotFoundChangesNothing ==
    \A p \in Procs :
        /\ ( /\ pc[p] = "done"
             /\ req[p].op \in {"UpdateGroomer", "IncrementBookingCount"}
             /\ NotVisible(pre, req[p].gid) )
           => /\ result[p].outcome \in {"NotFound", "failure"}
              /\ committed[p] = {}
              /\ Db = pre
        /\ (pc[p] = "done" /\ req[p].op = "SoftDelete")
           => /\ req[p].gid \in DOMAIN pre.groomers =>
                    result[p].outcome # "NotFound"
              /\ req[p].gid \notin DOMAIN pre.groomers =>
                    /\ result[p].outcome \in {"NotFound", "failure"}
                    /\ committed[p] = {}
                    /\ Db = pre
        /\ ( /\ pc[p] = "done"
             /\ req[p].op \in {"UpdateGroomer", "IncrementBookingCount",
                                "SoftDelete"}
             /\ result[p].outcome = "NotFound" )
           => committed[p] = {} /\ Db = pre

C21_Witness ==
    \E p \in Procs :
        /\ pc[p] = "done"
        /\ req[p].op = "IncrementBookingCount"
        /\ req[p].gid \in DOMAIN pre.groomers
        /\ pre.groomers[req[p].gid].status = "deleted"
        /\ pre.groomers[req[p].gid].total_bookings_count > 0
        /\ result[p].outcome = "NotFound"

\* C22: after a DeleteReview that succeeded, the stored review_count and
\* rating of the groomer the review referenced are the number and the rounded
\* mean of its remaining reviews, also when that groomer is deleted.
C22_DeleteRecomputesForDeleted ==
    \A p \in Procs :
        ( /\ pc[p] = "done"
          /\ req[p].op = "DeleteReview"
          /\ result[p].outcome = "ok"
          /\ groomers[result[p].ret[1].groomer_id].status = "deleted" )
        => LET g == result[p].ret[1].groomer_id
           IN  /\ groomers[g].review_count = ExpectedCount(g)
               /\ groomers[g].rating = ExpectedRating(g)

\* C23: when a step commits a new review, also in runs where a CreateReview
\* overlaps a SoftDelete of the same groomer, the groomer the review references
\* is not deleted in the committed table at that moment, and the step is the
\* commit of the recomputation of that groomer's aggregate by the request
\* that inserted the review.
C23_ReviewOnlyForVisible ==
    [][\A r \in DOMAIN reviews' \ DOMAIN reviews :
          /\ groomers[reviews'[r].groomer_id].status # "deleted"
          /\ \E p \in Procs :
                /\ sess[p].rid = r
                /\ pc[p] = "recalc_commit"
                /\ "recalc" \in committed'[p]]_vars

\* C24: a direct Recalculate of a visible groomer, unless a statement of it
\* fails, stores the rounded mean and the number of the groomer's current
\* reviews and returns the groomer; it leaves the reviews as they were; and
\* when the stored aggregate was that mean and number already, it leaves both
\* tables as they were.
C24_RecalculateIdempotent ==
    \A p \in Procs :
        (pc[p] = "done" /\ req[p].op = "Recalculate")
        => LET g == req[p].gid
           IN  /\ reviews = pre.reviews
               /\ (Ended(p) /\ ~NotVisible(pre, g)) =>
                     /\ result[p].outcome = "ok"
                     /\ groomers[g].rating = ExpectedRating(g)
                     /\ groomers[g].review_count = ExpectedCount(g)
               /\ ( /\ ~NotVisible(pre, g)
                     /\ pre.groomers[g].rating = ExpectedRating(g)
                     /\ pre.groomers[g].review_count = ExpectedCount(g) )
                  => Db = pre

\* The ratings of groomer 1's current reviews, in the order of their ids.
LedgerOf(revs) ==
    LET ids == ReviewsOf(revs, 1)
        F[n \in 0..MaxLedger + 1] ==
            IF n = 0 THEN <<>>
            ELSE IF n \in ids THEN Append(F[n - 1], revs[n].rating)
            ELSE F[n - 1]
    IN  F[MaxLedger + 1]

\* C25: after every review submission or deletion for groomer 1 that
\* succeeded, in a run of nothing else on a groomer that began with no review,
\* the stored rating lies in [0, 5] and within 0.01 of the exact mean of the
\* current reviews (0.0 without any) and review_count is their number: 4.2
\* and 5 after the ratings 5, 4, 3, 5, 4; 4.5 and 4 once the 3 is deleted;
\* 0.0 and 0 once all are.
C25_WorkedTrace ==
    \A p \in Procs :
        (pc[p] = "done" /\ result[p].outcome = "ok")
        => LET ids == ReviewsOf(reviews, 1)
               n   == Cardinality(ids)
               sum == SumRatings(reviews, ids)
               g   == groomers[1]
           IN  /\ g.rating >= 0 /\ g.rating <= 500
               /\ g.review_count = n
               /\ n = 0 => g.rating = 0
               /\ n > 0 => /\ n * g.rating - 100 * sum <= n
                           /\ 100 * sum - n * g.rating <= n
               /\ LedgerOf(reviews) = <<5, 4, 3, 5, 4>> => g.rating = 420
               /\ LedgerOf(reviews) = <<5, 4, 5, 4>> => g.rating = 450

\* The requests that are not to touch a groomer's aggregate.
AggregateKeepers ==
    {"UpdateGroomer", "SoftDelete", "IncrementBookingCount", "GetGroomer",
     "SearchGroomers", "ListReviews"}

\* C26: from its start to its end, however it ends, an Update, SoftDelete,
\* IncrementBookingCount, Get, Search or ListReviews request leaves rating
\* and review_count of every groomer, and the reviews, as they were when it
\* began; and an IncrementBookingCount leaves every field of every groomer
\* but total_bookings_count as it was.
C26_AggregateFrame ==
    \A p \in Procs :
        (pc[p] # "idle" /\ req[p].op \in AggregateKeepers)
        => /\ DOMAIN groomers = DOMAIN pre.groomers
           /\ reviews = pre.reviews
           /\ \A g \in DOMAIN groomers :
                 /\ groomers[g].rating = pre.groomers[g].rating
                 /\ groomers[g].review_count = pre.groomers[g].review_count
                 /\ req[p].op = "IncrementBookingCount" =>
                       groomers[g] =
                         [pre.groomers[g] EXCEPT !.total_bookings_count =
                                          groomers[g].total_bookings_count]

\* A SoftDelete has succeeded on a groomer that has a review and a booking:
\* the row is deleted and still carries both.
C26_Witness ==
    \E p \in Procs :
        /\ pc[p] = "done"
        /\ req[p].op = "SoftDelete"
        /\ result[p].outcome = "ok"
        /\ pre.groomers[req[p].gid].status # "deleted"
        /\ groomers[req[p].gid].status = "deleted"
        /\ groomers[req[p].gid].review_count = 1
        /\ groomers[req[p].gid].rating = 500
        /\ groomers[req[p].gid].total_bookings_count = 1

\* C27: an UpdateGroomer of a visible groomer whose body has null for
\* first_name, last_name or location is answered InvalidInput by the schema,
\* before its handler takes a step: no statement of it is ever pending, and
\* both tables are as they were when it began.
C27_NullRejectedAsInvalid ==
    \A p \in Procs :
        ( /\ pc[p] # "idle"
          /\ req[p].op = "UpdateGroomer"
          /\ ~NotVisible(pre, req[p].gid)
          /\ \E c \in NotNullColumns \cap DOMAIN req[p].fields :
                req[p].fields[c] = <<>> )
        => /\ pc[p] = "done"
           /\ result[p].outcome = "InvalidInput"
           /\ Db = pre

\* C28: in runs of overlapping SoftDelete, IncrementBookingCount,
\* CreateReview and DeleteReview requests, every request that has begun ends
\* (with a result, NotFound or a failure).
C28_EveryRequestEnds ==
    \A p \in Procs : InFlight(p) ~> pc[p] = "done"

\* A DeleteReview is waiting to send its DELETE while another session holds
\* the uncommitted DELETE of the same review.
C28_Witness ==
    \E p \in Procs, q \in Procs :
        /\ p # q
        /\ req[p].op = "DeleteReview"
        /\ pc[p] = "flush"
        /\ sess[q].del = sess[p].snap[1].review_id
        /\ InFlight(q)

\* C29: when a recomputation runs its count query, the rating it got from
\* its average query is the average of the reviews the count is taken over:
\* the pair it goes on to commit comes from one set of reviews.
C29_OneReviewSet ==
    [][\A p \in Procs :
          (pc[p] = "recalc_count" /\ pc'[p] = "recalc_commit")
          => sess'[p].cur[1].rating
               = AvgRating(SessionReviews(p), sess[p].gid)]_vars

\* The groomer a review request is about: the one in the path of a
\* submission, the one the review referenced when a deletion began (0: none).
Owner(r, db) ==
    IF r.op = "CreateReview" THEN r.gid
    ELSE IF r.rid \in DOMAIN db.reviews THEN db.reviews[r.rid].groomer_id
    ELSE 0

\* C30: from its start to its end, however it ends, a CreateReview or
\* DeleteReview request leaves every groomer other than the review's the row
\* it had when the request began (rating, review_count, status and
\* total_bookings_count among its fields) and the same reviews.
C30_OtherGroomersUntouched ==
    \A p \in Procs :
        (pc[p] # "idle" /\ req[p].op \in {"CreateReview", "DeleteReview"})
        => /\ DOMAIN groomers = DOMAIN pre.groomers
           /\ \A h \in DOMAIN groomers \ {Owner(req[p], pre)} :
                 /\ groomers[h] = pre.groomers[h]
                 /\ ReviewsOf(reviews, h) = ReviewsOf(pre.reviews, h)
                 /\ \A r \in ReviewsOf(reviews, h) :
                       reviews[r] = pre.reviews[r]

\* A submission for groomer 2 has succeeded while groomer 1 has a review of
\* its own.
C30_Witness ==
    \E p \in Procs :
        /\ pc[p] = "done"
        /\ req[p].op = "CreateReview"
        /\ req[p].gid = 2
        /\ result[p].outcome = "ok"
        /\ groomers[2].review_count = 1
        /\ groomers[1].review_count = 1
        /\ ReviewsOf(reviews, 1) # {}
        /\ ReviewsOf(reviews, 2) # {}

====
